---- MODULE Spec2Model ----
(***************************************************************************)
(* A model of datetime's fixed-offset module, src/cal/offset.rs: the       *)
(* Offset constructors (utc, of_seconds, of_hours_and_minutes), the        *)
(* pairing of a LocalDateTime with an Offset (transform_date) and the nine *)
(* field accessors of OffsetDateTime.                                      *)
(*                                                                         *)
(* Rust values are modelled as follows.                                    *)
(*   Option<T>          a sequence of length <= 1: <<>> is None, <<v>> is   *)
(*                      Some(v)                                            *)
(*   Result<Offset, E>  [ok |-> Option<Offset>, err |-> Option<E>], exactly *)
(*                      one of the two being Some                          *)
(*   Offset             [offset_seconds |-> Option<i32>]                    *)
(*   OffsetDateTime     [local |-> LocalDateTime, offset |-> Offset]        *)
(*   LocalDateTime      the linear instant, in milliseconds since the      *)
(*                      epoch 1970-01-01T00:00:00.000, held as             *)
(*                      [days, millis]: instant = days * 86400000 + millis *)
(*                      with 0 <= millis < 86400000 (TLC's integers are 32 *)
(*                      bits wide, a millisecond count of years is not)    *)
(*   Duration           [seconds |-> i64, milliseconds |-> 0..999]          *)
(*   Month, Weekday     the variant's ordinal (January = 1; Sunday = 0)    *)
(***************************************************************************)
EXTENDS Integers, Sequences, FiniteSets, TLC

VARIABLES
    call,     \* the latest call of a constructor or of transform_date, with its arguments
    result,   \* the Result<Offset, Error> of the constructor call (NoResult before it)
    odt,      \* Option<OffsetDateTime>: the value transform_date returned
    first,    \* per accessor, Option of the value its first call on odt returned
    last      \* Option of [field, value, repeated]: the latest accessor call on odt,
              \* repeated when that accessor had been called on odt before

vars == <<call, result, odt, first, last>>

(***************************************************************************)
(* Bounds of the model.                                                    *)
(***************************************************************************)
\* of_seconds is called with every value within Margin of each range boundary
Margin == 3
\* ... and with every value in -NearZero .. NearZero
NearZero == 20
\* each anchor instant is taken together with its MaxSteps successors, Step apart
MaxSteps == 1

(***************************************************************************)
(* Machine integer types of the signatures.                                *)
(***************************************************************************)
I8_MIN == -128
I8_MAX == 127
\* TLC's integers are 32 bits wide: i32::MIN is written from i32::MAX
I32_MAX == 2147483647
I32_MIN == -I32_MAX - 1

I8 == I8_MIN .. I8_MAX

None == <<>>
Some(v) == <<v>>

Ok(o) == [ok |-> Some(o), err |-> None]
Err(e) == [ok |-> None, err |-> Some(e)]
\* no constructor has returned yet
NoResult == [ok |-> None, err |-> None]
is_ok(r) == r.ok # None

\* i8::is_positive, i8::is_negative
is_positive(x) == x > 0
is_negative(x) == x < 0

\* util::RangeExt::is_within over a half-open range start..end
is_within(x, start, end) == x >= start /\ x < end

(***************************************************************************)
(* Offset                                                                  *)
(***************************************************************************)
utc == [offset_seconds |-> None]

\* a range check whose upper end excludes the boundary value 86400
of_seconds_exclusive(seconds) ==
    IF is_within(seconds, -86400, 86400)
    THEN Ok([offset_seconds |-> Some(seconds)])
    ELSE Err("OutOfRange")

\* a range check one second too wide at the upper end
of_seconds_wide(seconds) ==
    IF is_within(seconds, -86400, 86402)
    THEN Ok([offset_seconds |-> Some(seconds)])
    ELSE Err("OutOfRange")

of_seconds(seconds) ==
    IF is_within(seconds, -86400, 86401)
    THEN Ok([offset_seconds |-> Some(seconds)])
    ELSE Err("OutOfRange")

\* the range checks placed before the sign check
of_hours_and_minutes_range_first(hours, minutes) ==
    IF hours <= -24 \/ hours >= 24
    THEN Err("OutOfRange")
    ELSE IF minutes <= -60 \/ minutes >= 60
    THEN Err("OutOfRange")
    ELSE IF \/ (is_positive(hours) /\ is_negative(minutes))
            \/ (is_negative(hours) /\ is_positive(minutes))
    THEN Err("SignMismatch")
    ELSE of_seconds(hours * 24 + minutes * 60)

\* the range checks written with > and < where the code has >= and <=
of_hours_and_minutes_strict(hours, minutes) ==
    IF \/ (is_positive(hours) /\ is_negative(minutes))
       \/ (is_negative(hours) /\ is_positive(minutes))
    THEN Err("SignMismatch")
    ELSE IF hours < -24 \/ hours > 24
    THEN Err("OutOfRange")
    ELSE IF minutes < -60 \/ minutes > 60
    THEN Err("OutOfRange")
    ELSE of_seconds(hours * 24 + minutes * 60)

\* the conversion taking hours for days and minutes for hours
of_hours_and_minutes_days(hours, minutes) ==
    IF \/ (is_positive(hours) /\ is_negative(minutes))
       \/ (is_negative(hours) /\ is_positive(minutes))
    THEN Err("SignMismatch")
    ELSE IF hours <= -24 \/ hours >= 24
    THEN Err("OutOfRange")
    ELSE IF minutes <= -60 \/ minutes >= 60
    THEN Err("OutOfRange")
    ELSE of_seconds(hours * 86400 + minutes * 3600)

of_hours_and_minutes(hours, minutes) ==
    IF \/ (is_positive(hours) /\ is_negative(minutes))
       \/ (is_negative(hours) /\ is_positive(minutes))
    THEN Err("SignMismatch")
    ELSE IF hours <= -24 \/ hours >= 24
    THEN Err("OutOfRange")
    ELSE IF minutes <= -60 \/ minutes >= 60
    THEN Err("OutOfRange")
    ELSE of_seconds(hours * 24 + minutes * 60)

(***************************************************************************)
(* The arguments of_seconds is called with: both range boundaries and      *)
(* their neighbourhoods, the neighbourhood of zero, the values of the      *)
(* tests and the ends of i32.                                              *)
(***************************************************************************)
SecondsInputs ==
    (-86400 - Margin .. -86400 + Margin) \cup (86400 - Margin .. 86400 + Margin)
    \cup (-NearZero .. NearZero)
    \cup {1234, 100000, -100000, 19800, -13500, I32_MIN, I32_MAX}

(***************************************************************************)
(* Duration and LocalDateTime: cal/datetime.rs and duration.rs are not     *)
(* among the sources at hand; they are modelled from the design document.  *)
(* A LocalDateTime is its linear instant, every field is derived from it.  *)
(***************************************************************************)
MillisPerSecond == 1000
MillisPerDay == 24 * 3600 * MillisPerSecond

\* Duration::of: a span of whole seconds
Duration_of(seconds) == [seconds |-> seconds, milliseconds |-> 0]

\* LocalDateTime + Duration: the sum of the linear instants, renormalised
local_add(local, duration) ==
    LET ms == local.millis + duration.seconds * MillisPerSecond + duration.milliseconds
    IN  [days |-> local.days + (ms \div MillisPerDay), millis |-> ms % MillisPerDay]

\* divisible by 4, centuries only when divisible by 400
is_leap_year(y) == y % 4 = 0 /\ (y % 100 # 0 \/ y % 400 = 0)

days_in_month(y, m) ==
    IF m = 2 THEN (IF is_leap_year(y) THEN 29 ELSE 28)
    ELSE IF m \in {4, 6, 9, 11} THEN 30
    ELSE 31

\* the leap years before year y, counted from year 1
leap_years_before(y) == ((y - 1) \div 4) - ((y - 1) \div 100) + ((y - 1) \div 400)

\* the day-count of 1 January of year y (0 for 1970)
days_before_year(y) ==
    365 * (y - 1970) + leap_years_before(y) - leap_years_before(1970)

\* the days of year y before the first of month m: the cumulative standard
\* month lengths, plus the leap day once the month is past February
days_before_month(y, m) ==
    LET cumulative == <<0, 31, 59, 90, 120, 151, 181, 212, 243, 273, 304, 334, 365>>
    IN  cumulative[m] + (IF m > 2 /\ is_leap_year(y) THEN 1 ELSE 0)

\* (year, month, day) to the linear day-count
ymd_to_days(y, m, d) == days_before_year(y) + days_before_month(y, m) + d - 1

\* the linear day-count to its year: the mean-year estimate, corrected by one
year_of_days(days) ==
    LET y == 1970 + ((days * 400) \div 146097)
    IN  IF days_before_year(y) > days THEN y - 1
        ELSE IF days_before_year(y + 1) <= days THEN y + 1
        ELSE y

local_year(local) == year_of_days(local.days)

local_yearday(local) == local.days - days_before_year(local_year(local)) + 1

local_month(local) ==
    LET y == local_year(local)
        yd == local_yearday(local)
    IN  CHOOSE m \in 1 .. 12 :
            days_before_month(y, m) < yd /\ yd <= days_before_month(y, m) + days_in_month(y, m)

local_day(local) ==
    local_yearday(local) - days_before_month(local_year(local), local_month(local))

\* the day-count modulo 7, aligned so that the epoch is a Thursday (Sunday = 0)
local_weekday(local) == (local.days + 4) % 7

local_hour(local) == local.millis \div (3600 * MillisPerSecond)
local_minute(local) == (local.millis \div (60 * MillisPerSecond)) % 60
local_second(local) == (local.millis \div MillisPerSecond) % 60
local_millisecond(local) == local.millis % MillisPerSecond

\* the LocalDateTime of a LocalDate and a LocalTime
local_at(y, m, d, hour, minute, second, millisecond) ==
    [days |-> ymd_to_days(y, m, d),
     millis |-> ((hour * 60 + minute) * 60 + second) * MillisPerSecond + millisecond]

(***************************************************************************)
(* Offset::adjust, Offset::transform_date and OffsetDateTime's accessors.  *)
(***************************************************************************)
\* the displacement subtracted where the code adds it
adjust_subtracting(self, local) ==
    IF self.offset_seconds # None
    THEN local_add(local, Duration_of(-self.offset_seconds[1]))
    ELSE local

\* a displacement one second too large
adjust_off_by_one(self, local) ==
    IF self.offset_seconds # None
    THEN local_add(local, Duration_of(self.offset_seconds[1] + 1))
    ELSE local

adjust(self, local) ==
    IF self.offset_seconds # None
    THEN local_add(local, Duration_of(self.offset_seconds[1]))
    ELSE local

\* the local time stored already adjusted
transform_date_adjusted(self, local) == [local |-> adjust(self, local), offset |-> self]

transform_date(self, local) == [local |-> local, offset |-> self]

year(self) == local_year(adjust(self.offset, self.local))
month(self) == local_month(adjust(self.offset, self.local))
day(self) == local_day(adjust(self.offset, self.local))
yearday(self) == local_yearday(adjust(self.offset, self.local))
weekday(self) == local_weekday(adjust(self.offset, self.local))
hour(self) == local_hour(adjust(self.offset, self.local))
minute(self) == local_minute(adjust(self.offset, self.local))
second(self) == local_second(adjust(self.offset, self.local))
millisecond(self) == local_millisecond(adjust(self.offset, self.local))

Fields == {"year", "month", "day", "yearday", "weekday",
           "hour", "minute", "second", "millisecond"}

\* the accessor named f, on an OffsetDateTime
Accessor(f, self) ==
    CASE f = "year" -> year(self)
      [] f = "month" -> month(self)
      [] f = "day" -> day(self)
      [] f = "yearday" -> yearday(self)
      [] f = "weekday" -> weekday(self)
      [] f = "hour" -> hour(self)
      [] f = "minute" -> minute(self)
      [] f = "second" -> second(self)
      [] f = "millisecond" -> millisecond(self)

\* the accessor named f, on a LocalDateTime
LocalAccessor(f, local) ==
    CASE f = "year" -> local_year(local)
      [] f = "month" -> local_month(local)
      [] f = "day" -> local_day(local)
      [] f = "yearday" -> local_yearday(local)
      [] f = "weekday" -> local_weekday(local)
      [] f = "hour" -> local_hour(local)
      [] f = "minute" -> local_minute(local)
      [] f = "second" -> local_second(local)
      [] f = "millisecond" -> local_millisecond(local)

(***************************************************************************)
(* The constructors as calls. They are associated functions of no state:   *)
(* a behaviour calls one of them, once.                                    *)
(***************************************************************************)
Call_utc ==
    /\ call.op = "none"
    /\ call' = [op |-> "utc"]
    /\ result' = Ok(utc)
    /\ UNCHANGED <<odt, first, last>>

Call_of_seconds ==
    /\ call.op = "none"
    /\ \E seconds \in SecondsInputs :
        /\ call' = [op |-> "of_seconds", seconds |-> seconds]
        /\ result' = of_seconds(seconds)
    /\ UNCHANGED <<odt, first, last>>

Call_of_hours_and_minutes ==
    /\ call.op = "none"
    /\ \E hours \in I8, minutes \in I8 :
        /\ call' = [op |-> "of_hours_and_minutes", hours |-> hours, minutes |-> minutes]
        /\ result' = of_hours_and_minutes(hours, minutes)
    /\ UNCHANGED <<odt, first, last>>

Init ==
    /\ call = [op |-> "none"]
    /\ result = NoResult
    /\ odt = None
    /\ first = [f \in Fields |-> None]
    /\ last = None

Next ==
    \/ Call_utc
    \/ Call_of_seconds
    \/ Call_of_hours_and_minutes

Spec == Init /\ [][Next]_vars

(***************************************************************************)
(* An Offset in use: transform_date pairs it with a LocalDateTime, and the *)
(* accessors of the OffsetDateTime are called in any order, any number of  *)
(* times. The Offset is one a constructor returned; a behaviour follows    *)
(* one OffsetDateTime value.                                               *)
(***************************************************************************)
DateSeconds == {0, 1, -1, 86400, -86400}
DateHoursAndMinutes == {<<5, 30>>, <<-3, -45>>}

DateOffsets ==
    {Ok(utc)}
    \cup {of_seconds(s) : s \in DateSeconds}
    \cup {of_hours_and_minutes(p[1], p[2]) : p \in DateHoursAndMinutes}

\* instants next to a year's end, a leap day, a century's missing leap day
\* (before the epoch), the 366th day of a year, and the epoch itself
Anchors ==
    {local_at(1999, 12, 31, 23, 59, 59, 999),
     local_at(2000, 2, 28, 23, 30, 0, 0),
     local_at(1900, 2, 28, 12, 0, 0, 500),
     local_at(2024, 12, 31, 0, 0, 0, 1),
     local_at(1970, 1, 1, 0, 0, 0, 0)}

\* twelve hours less half a second
Step == [seconds |-> 12 * 3600 - 1, milliseconds |-> 500]

RECURSIVE Stepped(_, _)
Stepped(local, k) == IF k = 0 THEN local ELSE Stepped(local_add(local, Step), k - 1)

Instants == {Stepped(a, k) : a \in Anchors, k \in 0 .. MaxSteps}

InitDate ==
    /\ call = [op |-> "none"]
    /\ result \in {r \in DateOffsets : is_ok(r)}
    /\ odt = None
    /\ first = [f \in Fields |-> None]
    /\ last = None

Call_transform_date ==
    /\ is_ok(result)
    /\ odt = None
    /\ \E local \in Instants :
        /\ call' = [op |-> "transform_date", self |-> result.ok[1], local |-> local]
        /\ odt' = Some(transform_date(result.ok[1], local))
    /\ first' = [f \in Fields |-> None]
    /\ last' = None
    /\ UNCHANGED result

\* an accessor returned v: the harness keeps its first value and its latest
Returned(f, v) ==
    /\ first' = IF first[f] = None THEN [first EXCEPT ![f] = Some(v)] ELSE first
    /\ last' = Some([field |-> f, value |-> v, repeated |-> first[f] # None])

Call_year ==
    /\ odt # None
    /\ Returned("year", year(odt[1]))
    /\ UNCHANGED <<call, result, odt>>

Call_month ==
    /\ odt # None
    /\ Returned("month", month(odt[1]))
    /\ UNCHANGED <<call, result, odt>>

Call_day ==
    /\ odt # None
    /\ Returned("day", day(odt[1]))
    /\ UNCHANGED <<call, result, odt>>

Call_yearday ==
    /\ odt # None
    /\ Returned("yearday", yearday(odt[1]))
    /\ UNCHANGED <<call, result, odt>>

Call_weekday ==
    /\ odt # None
    /\ Returned("weekday", weekday(odt[1]))
    /\ UNCHANGED <<call, result, odt>>

Call_hour ==
    /\ odt # None
    /\ Returned("hour", hour(odt[1]))
    /\ UNCHANGED <<call, result, odt>>

Call_minute ==
    /\ odt # None
    /\ Returned("minute", minute(odt[1]))
    /\ UNCHANGED <<call, result, odt>>

Call_second ==
    /\ odt # None
    /\ Returned("second", second(odt[1]))
    /\ UNCHANGED <<call, result, odt>>

Call_millisecond ==
    /\ odt # None
    /\ Returned("millisecond", millisecond(odt[1]))
    /\ UNCHANGED <<call, result, odt>>

NextDate ==
    \/ Call_transform_date
    \/ Call_year
    \/ Call_month
    \/ Call_day
    \/ Call_yearday
    \/ Call_weekday
    \/ Call_hour
    \/ Call_minute
    \/ Call_second
    \/ Call_millisecond

SpecDate == InitDate /\ [][NextDate]_vars

(***************************************************************************)
(* The properties.                                                         *)
(***************************************************************************)
opposite_signs(hours, minutes) ==
    (hours > 0 /\ minutes < 0) \/ (hours < 0 /\ minutes > 0)

in_range(hours, minutes) ==
    -24 < hours /\ hours < 24 /\ -60 < minutes /\ minutes < 60

\* C1: of_seconds(s) is Ok, carrying exactly s, when -86400 <= s <= 86400 (both
\* ends accepted), and Err(OutOfRange) for every other s.
C1_OfSecondsRange ==
    call.op = "of_seconds" =>
        IF -86400 <= call.seconds /\ call.seconds <= 86400
        THEN result = Ok([offset_seconds |-> Some(call.seconds)])
        ELSE result = Err("OutOfRange")

C1_Witness ==
    /\ call.op = "of_seconds"
    /\ call.seconds = 86400
    /\ result = Ok([offset_seconds |-> Some(86400)])

\* C2: an accepted of_hours_and_minutes(hours, minutes) carries
\* hours * 3600 + minutes * 60 seconds.
C2_SecondsOfHoursAndMinutes ==
    (call.op = "of_hours_and_minutes" /\ is_ok(result)) =>
        result.ok[1].offset_seconds = Some(call.hours * 3600 + call.minutes * 60)

\* C4: of_hours_and_minutes is Err(SignMismatch) exactly when hours and minutes
\* have strictly opposite signs, whether or not a component is out of range.
C4_SignMismatch ==
    call.op = "of_hours_and_minutes" =>
        ((result.err = Some("SignMismatch")) <=> opposite_signs(call.hours, call.minutes))

C4_Witness ==
    /\ call.op = "of_hours_and_minutes"
    /\ call.hours = 100
    /\ call.minutes = -100
    /\ result.err = Some("SignMismatch")

\* C5: without strictly opposite signs, of_hours_and_minutes is Err(OutOfRange)
\* whenever hours <= -24, hours >= 24, minutes <= -60 or minutes >= 60.
C5_OutOfRange ==
    ( /\ call.op = "of_hours_and_minutes"
      /\ ~opposite_signs(call.hours, call.minutes)
      /\ ~in_range(call.hours, call.minutes) ) =>
        result.err = Some("OutOfRange")

C5_Witness ==
    /\ call.op = "of_hours_and_minutes"
    /\ call.hours = 8
    /\ call.minutes = 60
    /\ result.err = Some("OutOfRange")

\* C6: every pair in range and without strictly opposite signs is accepted: the
\* seconds count computed for it passes of_seconds' range check.
C6_InRangeAccepted ==
    ( /\ call.op = "of_hours_and_minutes"
      /\ ~opposite_signs(call.hours, call.minutes)
      /\ in_range(call.hours, call.minutes) ) =>
        is_ok(result)

C6_Witness ==
    /\ call.op = "of_hours_and_minutes"
    /\ call.hours = -23
    /\ call.minutes = -59
    /\ is_ok(result)

\* C8, as claimed: every Offset a constructor returns is the no-offset value or
\* carries seconds with -86400 < seconds < 86400.
C8_StrictBound ==
    is_ok(result) =>
        \/ result.ok[1].offset_seconds = None
        \/ /\ -86400 < result.ok[1].offset_seconds[1]
           /\ result.ok[1].offset_seconds[1] < 86400

\* C8, amended: every Offset a constructor returns is the no-offset value or
\* carries seconds with -86400 <= seconds <= 86400.
C8_InclusiveBound ==
    is_ok(result) =>
        \/ result.ok[1].offset_seconds = None
        \/ /\ -86400 <= result.ok[1].offset_seconds[1]
           /\ result.ok[1].offset_seconds[1] <= 86400

C8_Witness ==
    /\ call.op = "of_seconds"
    /\ is_ok(result)
    /\ result.ok[1].offset_seconds = Some(-86400)

\* C9: of_hours_and_minutes is injective on the pairs it accepts: no other
\* accepted pair yields the Offset an accepted pair yields.
C9_Injective ==
    (call.op = "of_hours_and_minutes" /\ is_ok(result)) =>
        \A hours \in I8, minutes \in I8 :
            ( /\ <<hours, minutes>> # <<call.hours, call.minutes>>
              /\ is_ok(of_hours_and_minutes(hours, minutes)) ) =>
                of_hours_and_minutes(hours, minutes) # result

\* the LocalDateTime whose fields the claim expects of o.transform_date(t)
Shifted(o, t) ==
    IF o.offset_seconds = None THEN t ELSE local_add(t, Duration_of(o.offset_seconds[1]))

\* C3: every accessor of o.transform_date(t) returns what that accessor returns
\* on t + Duration::of(s) when o carries s seconds, and on t when o is utc.
C3_AccessorsOfShifted ==
    \A f \in Fields :
        ( /\ odt # None
          /\ last # None
          /\ last[1].field = f ) =>
            last[1].value = LocalAccessor(f, Shifted(call.self, call.local))

\* a day's displacement is seen in the day that is read
C3_Witness ==
    /\ odt # None
    /\ last # None
    /\ last[1].field = "day"
    /\ call.self.offset_seconds = Some(86400)
    /\ last[1].value # local_day(call.local)

\* C7: transform_date returns a value that holds t unadjusted and a copy of o;
\* accessor calls leave it so, and an accessor called again returns what its
\* first call returned.
C7_StoredUnchanged ==
    /\ call.op = "transform_date" =>
          odt = Some([local |-> call.local, offset |-> call.self])
    /\ last # None => first[last[1].field] = Some(last[1].value)

\* an accessor called again, after every accessor was called, on a value
\* whose offset shifts the fields
C7_Witness ==
    /\ odt # None
    /\ last # None
    /\ last[1].repeated
    /\ \A f \in Fields : first[f] # None
    /\ odt[1].offset.offset_seconds = Some(-86400)
    /\ odt[1].local = call.local

\* C10: over the same t, the accessors of the OffsetDateTime of of_seconds(0)
\* and of the one of utc() return equal values.
C10_ZeroIsUtc ==
    ( /\ odt # None
      /\ last # None
      /\ odt[1].offset \in {utc, [offset_seconds |-> Some(0)]} ) =>
        /\ last[1].value = Accessor(last[1].field, transform_date(utc, call.local))
        /\ last[1].value =
             Accessor(last[1].field, transform_date(of_seconds(0).ok[1], call.local))

C10_Witness ==
    /\ odt # None
    /\ last # None
    /\ odt[1].offset = [offset_seconds |-> Some(0)]
    /\ last[1].field = "millisecond"
    /\ last[1].value = 999

====
